---- MODULE Spec2Model ----
(***************************************************************************)
(* Model of ngram.LanguageModel (src/ngram/language_model.py): the         *)
(* construction of the per-order counting tries from a corpus              *)
(* (make_models), the smoothed relative frequency (get_relative_freq) and  *)
(* the sentence score (compute_prob).                                      *)
(*                                                                         *)
(* Python lists are 0-based, TLA+ sequences 1-based: models[j] here is the *)
(* code's models[j - 1], the trie of order j, and the code's slice         *)
(* line[i - j : i] is SubSeq(line, i - j + 1, i).                          *)
(*                                                                         *)
(* A quotient of floats is kept as the exact pair (num, den); alpha is the *)
(* rational alpha.n / alpha.d, so (c + alpha) / (t + alpha * V) is the     *)
(* pair (c * alpha.d + alpha.n, t * alpha.d + alpha.n * V).  A sum of      *)
(* logarithms is kept as the sequence of its arguments.                    *)
(***************************************************************************)
EXTENDS Integers, Sequences, FiniteSets, TLC

VARIABLES
    pc,           \* "reading" | "built" | "failed": position of the constructor
    N,            \* the N argument of the constructor
    corpus,       \* the framed sentences counted so far, in file order
    models,       \* the local variable models of make_models
    self_models,  \* the attribute self.models (Unassigned until it is set)
    out           \* the last query made on the model and what it returned

vars == <<pc, N, corpus, models, self_models, out>>

\* ---------------------------------------------------------------- bounds
MaxRows == 2      \* rows of the corpus file
MaxToks == 2      \* tokens of one sentence, before framing
MaxOrder == 2     \* largest N given to the constructor

\* ---------------------------------------------------------------- tokens
BOS == "<s>"
EOS == "</s>"
TrainWords == {"a", "b"}                      \* the words of the corpus
ScoreWords == {"a", "x"}                      \* the words of a scored sentence
Tokens == TrainWords \cup ScoreWords \cup {BOS, EOS}

SeqsUpTo(S, n) == UNION {[1..k -> S] : k \in 0..n}
SeqsFromTo(S, m, n) == UNION {[1..k -> S] : k \in m..n}

Front(s) == SubSeq(s, 1, Len(s) - 1)
Last(s) == s[Len(s)]
Min(a, b) == IF a < b THEN a ELSE b
Max(a, b) == IF a > b THEN a ELSE b

\* ------------------------------------------------------------ NestedDict
\* A node maps a token to a count (at the last level) or to another node.
EmptyDict == [k \in {} |-> 0]

RECURSIVE add_by_path(_, _, _)
add_by_path(d, path, value) ==
    LET k == Head(path) IN
    IF Len(path) = 1
    THEN [x \in DOMAIN d \cup {k} |->
            IF x = k THEN (IF k \in DOMAIN d THEN d[k] ELSE 0) + value
                     ELSE d[x]]
    ELSE [x \in DOMAIN d \cup {k} |->
            IF x = k
            THEN add_by_path(IF k \in DOMAIN d THEN d[k] ELSE EmptyDict,
                             Tail(path), value)
            ELSE d[x]]

RECURSIVE get_by_path(_, _)
get_by_path(d, path) ==
    IF Head(path) \notin DOMAIN d THEN 0
    ELSE IF Len(path) = 1 THEN d[Head(path)]
    ELSE get_by_path(d[Head(path)], Tail(path))

\* len(d.values()) and sum(d.values()) for a trie of order 1
values_len(d) == Cardinality(DOMAIN d)

RECURSIVE SumOver(_, _)
SumOver(d, keys) ==
    IF keys = {} THEN 0
    ELSE LET k == CHOOSE x \in keys : TRUE
         IN d[k] + SumOver(d, keys \ {k})

values_sum(d) == SumOver(d, DOMAIN d)

\* ----------------------------------------------------------- make_models
\* apply_modifications with no stemmer and no stopword list, in word mode,
\* on a sentence already split into its words.
apply_modifications(toks) == <<BOS>> \o toks \o <<EOS>>

\* variant: a window is counted only the first time it is met
RECURSIVE count_windows_dedup(_, _, _, _)
count_windows_dedup(d, line, j, i) ==
    IF i > Len(line) THEN d
    ELSE LET w == SubSeq(line, i - j + 1, i)
         IN count_windows_dedup(IF get_by_path(d, w) = 0
                                   THEN add_by_path(d, w, 1) ELSE d,
                                line, j, i + 1)

\* variant: range(j, len(line)), which misses the last window
RECURSIVE count_windows_short(_, _, _, _)
count_windows_short(d, line, j, i) ==
    IF i >= Len(line) THEN d
    ELSE count_windows_short(add_by_path(d, SubSeq(line, i - j + 1, i), 1),
                             line, j, i + 1)

\* for i in range(j, len(line) + 1): models[j - 1].add_by_path(line[i-j:i], 1)
RECURSIVE count_windows(_, _, _, _)
count_windows(d, line, j, i) ==
    IF i > Len(line) THEN d
    ELSE count_windows(add_by_path(d, SubSeq(line, i - j + 1, i), 1),
                       line, j, i + 1)

\* for j in range(1, N + 1): ...
count_row(ms, line, n) == [j \in 1..n |-> count_windows(ms[j], line, j, j)]

new_models(n) == [j \in 1..n |-> EmptyDict]

\* make_models as a function of the whole corpus
RECURSIVE make_models(_, _)
make_models(lines, n) ==
    IF lines = <<>> THEN new_models(n)
    ELSE count_row(make_models(Front(lines), n), Last(lines), n)

\* ----------------------------------------------------- get_relative_freq
Alpha1 == [n |-> 1, d |-> 1]                 \* the default alpha = 1.0
Alphas == {[n |-> 1, d |-> 2], Alpha1}

Raised(e, reads) == [status |-> e, num |-> 0, den |-> 0, reads |-> reads]

\* num / float(den); reads: the orders of the tries the call looked at
Quotient(num, den, reads) ==
    IF den = 0 THEN Raised("ZeroDivisionError", reads)
    ELSE [status |-> "ok", num |-> num, den |-> den, reads |-> reads]

\* variant: the vocabulary size of the order being smoothed
get_relative_freq_order_vocab(ms, words, alpha) ==
    LET length == Len(words)
        voc_size == values_len(ms[Min(length, Len(ms))])
    IN  IF length = 1
        THEN Quotient(get_by_path(ms[1], words) * alpha.d + alpha.n,
                      values_sum(ms[1]) * alpha.d + alpha.n * voc_size,
                      {1})
        ELSE IF length > Len(ms)
        THEN Raised("IndexError", {1})
        ELSE Quotient(get_by_path(ms[length], words) * alpha.d + alpha.n,
                      get_by_path(ms[length - 1], Front(words)) * alpha.d
                          + alpha.n * voc_size,
                      {1, length, length - 1})

\* variant: alpha is left out of the numerator
get_relative_freq_raw_count(ms, words, alpha) ==
    LET length == Len(words)
        voc_size == values_len(ms[1])
    IN  IF length = 1
        THEN Quotient(get_by_path(ms[1], words) * alpha.d,
                      values_sum(ms[1]) * alpha.d + alpha.n * voc_size,
                      {1})
        ELSE IF length > Len(ms)
        THEN Raised("IndexError", {1})
        ELSE Quotient(get_by_path(ms[length], words) * alpha.d,
                      get_by_path(ms[length - 1], Front(words)) * alpha.d
                          + alpha.n * voc_size,
                      {1, length, length - 1})

\* variant: the count of the words is left out of the numerator
get_relative_freq_no_count(ms, words, alpha) ==
    LET length == Len(words)
        voc_size == values_len(ms[1])
    IN  IF length = 1
        THEN Quotient(alpha.n,
                      values_sum(ms[1]) * alpha.d + alpha.n * voc_size,
                      {1})
        ELSE IF length > Len(ms)
        THEN Raised("IndexError", {1})
        ELSE Quotient(alpha.n,
                      get_by_path(ms[length - 1], Front(words)) * alpha.d
                          + alpha.n * voc_size,
                      {1, length, length - 1})

get_relative_freq(ms, words, alpha) ==
    LET length == Len(words)
        voc_size == values_len(ms[1])
    IN  IF length = 1
        THEN Quotient(get_by_path(ms[1], words) * alpha.d + alpha.n,
                      values_sum(ms[1]) * alpha.d + alpha.n * voc_size,
                      {1})
        ELSE IF length > Len(ms)
        THEN Raised("IndexError", {1})
        ELSE Quotient(get_by_path(ms[length], words) * alpha.d + alpha.n,
                      get_by_path(ms[length - 1], Front(words)) * alpha.d
                          + alpha.n * voc_size,
                      {1, length, length - 1})

\* ---------------------------------------------------------- compute_prob
NoN == [given |-> FALSE, n |-> 0]            \* N=None
GivenN(n) == [given |-> TRUE, n |-> n]

\* if not N: N = len(self.models)
effective_N(self_ms, Nparam) ==
    IF ~Nparam.given \/ Nparam.n = 0 THEN Len(self_ms) ELSE Nparam.n

\* variant: the accumulator starts at 0
sentence_prob_zero ==
    [status |-> "ok", seed |-> 0, logs |-> <<>>, windows |-> <<>>, reads |-> {}]

\* sentence_prob = 1, before any logarithm is added
sentence_prob_init ==
    [status |-> "ok", seed |-> 1, logs |-> <<>>, windows |-> <<>>, reads |-> {}]

\* the loop over i, from position i on; acc is sentence_prob, with the
\* windows queried so far and the orders of the tries read so far
RECURSIVE score_loop(_, _, _, _, _)
score_loop(ms, sentence, n, i, acc) ==
    IF i > Len(sentence) THEN acc
    ELSE
      LET words == IF i - n < 0 THEN SubSeq(sentence, 1, i)
                                ELSE SubSeq(sentence, i - n + 1, i)
          rf == get_relative_freq(ms, words, Alpha1)
          seen == [acc EXCEPT !.windows = Append(@, words),
                              !.reads = @ \cup rf.reads]
      IN  IF rf.status # "ok" THEN [seen EXCEPT !.status = rf.status]
          ELSE IF rf.num <= 0 THEN [seen EXCEPT !.status = "ValueError"]
          ELSE score_loop(ms, sentence, n, i + 1,
                          [seen EXCEPT !.logs = Append(@, <<rf.num, rf.den>>)])

\* variant: the N argument is ignored, the maximum order always used
compute_prob_max_order(self_ms, toks, Nparam) ==
    score_loop(self_ms, apply_modifications(toks), Len(self_ms), 1,
               sentence_prob_init)

compute_prob(self_ms, toks, Nparam) ==
    LET sentence == apply_modifications(toks)
        n == effective_N(self_ms, Nparam)
    IN  score_loop(SubSeq(self_ms, 1, Min(n, Len(self_ms))), sentence, n, 1,
                   sentence_prob_init)

\* ------------------------------------------------------------- the model
Unassigned == <<>>
NoCall == [op |-> "none"]

Init ==
    /\ pc = "reading"
    /\ N \in 1..MaxOrder
    /\ corpus = <<>>
    /\ models = new_models(N)
    /\ self_models = Unassigned
    /\ out = NoCall

\* variant: the rows are counted in self.models itself
ReadRowPublishing(toks) ==
    /\ pc = "reading"
    /\ Len(corpus) < MaxRows
    /\ LET line == apply_modifications(toks)
       IN  /\ models' = count_row(models, line, N)
           /\ self_models' = count_row(models, line, N)
           /\ corpus' = Append(corpus, line)
    /\ UNCHANGED <<pc, N, out>>

\* one iteration of "for row in reader" on a well-formed row
ReadRow(toks) ==
    /\ pc = "reading"
    /\ Len(corpus) < MaxRows
    /\ LET line == apply_modifications(toks)
       IN  /\ models' = count_row(models, line, N)
           /\ corpus' = Append(corpus, line)
    /\ UNCHANGED <<pc, N, self_models, out>>

\* a row without fields: row[0] raises IndexError, which leaves __init__
BadRow ==
    /\ pc = "reading"
    /\ pc' = "failed"
    /\ UNCHANGED <<N, corpus, models, self_models, out>>

\* the reader is exhausted: return models; self.models = <the result>
EndOfFile ==
    /\ pc = "reading"
    /\ self_models' = models
    /\ pc' = "built"
    /\ UNCHANGED <<N, corpus, models, out>>

GetRelativeFreq(words, alpha) ==
    /\ pc = "built"
    /\ out' = [op |-> "get_relative_freq", words |-> words, alpha |-> alpha,
               res |-> get_relative_freq(self_models, words, alpha)]
    /\ UNCHANGED <<pc, N, corpus, models, self_models>>

\* variant: the slice self.models[:N] is stored back in self.models
ComputeProbTruncating(toks, Nparam) ==
    /\ pc = "built"
    /\ out' = [op |-> "compute_prob", toks |-> toks, N |-> Nparam,
               res |-> compute_prob(self_models, toks, Nparam)]
    /\ self_models' = SubSeq(self_models, 1,
                             Min(effective_N(self_models, Nparam),
                                 Len(self_models)))
    /\ UNCHANGED <<pc, N, corpus, models>>

ComputeProb(toks, Nparam) ==
    /\ pc = "built"
    /\ out' = [op |-> "compute_prob", toks |-> toks, N |-> Nparam,
               res |-> compute_prob(self_models, toks, Nparam)]
    /\ UNCHANGED <<pc, N, corpus, models, self_models>>

\* any run of the constructor
Build ==
    \/ \E toks \in SeqsUpTo(TrainWords, MaxToks) : ReadRow(toks)
    \/ BadRow
    \/ EndOfFile

FreqArgs == SeqsFromTo(Tokens, 1, Len(self_models)) \X Alphas
\* N: None, 0, an order of the model, or the order above them
ProbArgs ==
    SeqsUpTo(ScoreWords, MaxToks)
        \X ({NoN} \cup {GivenN(n) : n \in 0..(Len(self_models) + 1)})

\* the constructor, then any sequence of queries on the model it built
Next ==
    \/ Build
    \/ \E a \in FreqArgs : GetRelativeFreq(a[1], a[2])
    \/ \E a \in ProbArgs : ComputeProb(a[1], a[2])

Spec == Init /\ [][Next]_vars

\* the constructor alone
SpecBuild == Init /\ [][Build]_vars

\* A query reads self.models only, and Spec shows that no query changes it
\* (C6): what a query returns at any point of a sequence is what it returns
\* as the first query.  The specifications below keep the first query only.

\* the constructor, then the first query on the model: get_relative_freq
NextFreq ==
    \/ Build
    \/ /\ out = NoCall
       /\ pc = "built"
       /\ \E a \in FreqArgs : GetRelativeFreq(a[1], a[2])

SpecFreq == Init /\ [][NextFreq]_vars

\* the constructor, then the first query on the model: compute_prob
NextProb ==
    \/ Build
    \/ /\ out = NoCall
       /\ pc = "built"
       /\ \E a \in ProbArgs : ComputeProb(a[1], a[2])

SpecProb == Init /\ [][NextProb]_vars

\* the constructor, then the first query on the model: compute_prob at an
\* explicit order that the model has
ProbArgsAt ==
    SeqsUpTo(ScoreWords, MaxToks)
        \X {GivenN(n) : n \in 1..Len(self_models)}

NextProbAt ==
    \/ Build
    \/ /\ out = NoCall
       /\ pc = "built"
       /\ \E a \in ProbArgsAt : ComputeProb(a[1], a[2])

SpecProbAt == Init /\ [][NextProbAt]_vars

\* ------------------------------------------------- the corpus, counted directly
\* the pairs (sentence k, ending index i) whose window of length Len(p) is p
WindowsOf(lines, p) ==
    {w \in (1..Len(lines)) \X (1..(MaxToks + 2)) :
        /\ Len(p) <= w[2]
        /\ w[2] <= Len(lines[w[1]])
        /\ SubSeq(lines[w[1]], w[2] - Len(p) + 1, w[2]) = p}

WindowCount(lines, p) == Cardinality(WindowsOf(lines, p))

\* sum over the sentences s of max(0, len(s) - j + 1)
RECURSIVE WindowTotal(_, _)
WindowTotal(lines, j) ==
    IF lines = <<>> THEN 0
    ELSE WindowTotal(Front(lines), j) + Max(0, Len(Last(lines)) - j + 1)

CorpusTokens(lines) ==
    UNION {{lines[k][i] : i \in 1..Len(lines[k])} : k \in 1..Len(lines)}

\* the sum of all the counts stored in a trie of the given depth
RECURSIVE TotalCount(_, _, _)
TotalCount(d, keys, depth) ==
    IF keys = {} THEN 0
    ELSE LET k == CHOOSE x \in keys : TRUE
         IN (IF depth = 1 THEN d[k]
                          ELSE TotalCount(d[k], DOMAIN d[k], depth - 1))
            + TotalCount(d, keys \ {k}, depth)

\* ----------------------------------------------------------------- C1
\* C1: after the build, for every order j in 1..N and every token sequence p
\* of length j, the count stored at p in the trie of order j is the number
\* of (sentence, ending index) pairs whose window of length j is exactly p;
\* a sequence that is no window has count 0.
C1_CountsAreWindowCounts ==
    pc = "built" =>
        \A j \in 1..N : \A p \in [1..j -> Tokens] :
            get_by_path(self_models[j], p) = WindowCount(corpus, p)

\* a repeated token counted twice in one sentence, and "a b" told from "b a"
C1_Witness ==
    /\ pc = "built"
    /\ N = 2
    /\ \E k \in 1..Len(corpus) : corpus[k] = <<BOS, "a", "a", EOS>>
    /\ get_by_path(self_models[1], <<"a">>) >= 2
    /\ get_by_path(self_models[2], <<"a", "b">>) = 1
    /\ get_by_path(self_models[2], <<"b", "a">>) = 0

\* ----------------------------------------------------------------- C7
\* C7: after the build the counts of the trie of order 1 sum to the number
\* of tokens of the corpus, boundary markers included, and the counts of
\* the trie of order j sum to the sum over the sentences s of
\* max(0, len(s) - j + 1).
C7_CountsSumToWindows ==
    pc = "built" =>
        \A j \in 1..N :
            TotalCount(self_models[j], DOMAIN self_models[j], j)
                = WindowTotal(corpus, j)

\* two sentences of 4 and 3 tokens: 7 unigram and 3 + 2 bigram increments
C7_Witness ==
    /\ pc = "built"
    /\ N = 2
    /\ Len(corpus) = 2
    /\ Len(corpus[1]) = 4
    /\ Len(corpus[2]) = 3
    /\ values_sum(self_models[1]) = 7
    /\ TotalCount(self_models[2], DOMAIN self_models[2], 2) = 5

\* ----------------------------------------------------------------- C8
\* C8: self.models is assigned only once every sentence of the corpus has
\* been counted at every order; while the rows are read, and after a
\* failure on a malformed row, the model has no tries at all.
C8_AllOrNothing ==
    /\ pc \in {"reading", "failed"} => self_models = Unassigned
    /\ self_models # Unassigned =>
          /\ pc = "built"
          /\ self_models = make_models(corpus, N)

\* the build failed after rows had been counted in the local tries
C8_Witness ==
    /\ pc = "failed"
    /\ Len(corpus) >= 1
    /\ models # new_models(N)
    /\ self_models = Unassigned

\* ----------------------------------------------------------------- C2
\* the quotient the smoothing formula gives on the corpus, as (num, den)
ExpectedFreq(lines, words, alpha) ==
    LET V == Cardinality(CorpusTokens(lines))
        context == IF Len(words) = 1 THEN WindowTotal(lines, 1)
                   ELSE WindowCount(lines, Front(words))
    IN  [num |-> WindowCount(lines, words) * alpha.d + alpha.n,
         den |-> context * alpha.d + alpha.n * V]

SpecCorpus == << <<BOS, "a", "b", EOS>> >>

\* C2: get_relative_freq(words, alpha) is (count of words + alpha) over
\* (sum of the order-1 counts + alpha * V) for one word, and over (count of
\* words[:-1] + alpha * V) for more, V being the number of distinct order-1
\* entries at every order; on the corpus [<s> a b </s>] with N = 2 and
\* alpha = 1 it is 2/8 for [a] and 2/5 for [a, b].
C2_SmoothingFormula ==
    (pc = "built" /\ out.op = "get_relative_freq") =>
        LET e == ExpectedFreq(corpus, out.words, out.alpha)
        IN  /\ e.den # 0 =>
                /\ out.res.status = "ok"
                /\ out.res.num = e.num
                /\ out.res.den = e.den
            /\ (corpus = SpecCorpus /\ N = 2 /\ out.alpha = Alpha1) =>
                /\ out.words = <<"a">> =>
                      out.res.num = 2 /\ out.res.den = 8
                /\ out.words = <<"a", "b">> =>
                      out.res.num = 2 /\ out.res.den = 5

\* the bigram of the scenario, smoothed with the vocabulary of order 1
C2_Witness ==
    /\ pc = "built"
    /\ corpus = SpecCorpus
    /\ N = 2
    /\ out.op = "get_relative_freq"
    /\ out.words = <<"a", "b">>
    /\ out.alpha = Alpha1
    /\ out.res.num = 2
    /\ out.res.den = 5

C5_EmptyModelError ==
    (pc = "built" /\ corpus = <<>> /\ out.op # "none") =>
        out.res.status = "EmptyModelError"

\* ----------------------------------------------------------------- C3
\* what the claim says of a call whose order is effN
ScoresByWindows(effN) ==
    LET sentence == apply_modifications(out.toks)
        r == out.res
    IN  /\ r.status = "ok"
        /\ r.seed = 1
        /\ Len(r.windows) = Len(sentence)
        /\ Len(r.logs) = Len(sentence)
        /\ \A i \in 1..Len(sentence) :
              LET q == get_relative_freq(self_models, r.windows[i], Alpha1)
              IN  /\ r.windows[i] = IF i < effN
                                    THEN SubSeq(sentence, 1, i)
                                    ELSE SubSeq(sentence, i - effN + 1, i)
                  /\ Len(r.windows[i]) = Min(i, effN)
                  /\ r.logs[i] = <<q.num, q.den>>

\* N counts as specified when it is given and not 0 ("if not N")
Specified(Nparam) == Nparam.given /\ Nparam.n # 0

RECURSIVE Product(_, _)
Product(logs, k) ==
    IF logs = <<>> THEN 1 ELSE logs[1][k] * Product(Tail(logs), k)

\* a / b > c / d for positive b and d, by continued fractions
RECURSIVE Greater(_, _, _, _)
Greater(a, b, c, d) ==
    IF a \div b # c \div d THEN a \div b > c \div d
    ELSE IF a % b = 0 THEN FALSE
    ELSE IF c % d = 0 THEN TRUE
    ELSE Greater(d, c % d, b, a % b)

\* 1 + sum of log(num / den) is higher for r than for q
HigherScore(r, q) ==
    Greater(Product(r.logs, 1), Product(r.logs, 2),
            Product(q.logs, 1), Product(q.logs, 2))

Interior(line) == SubSeq(line, 2, Len(line) - 1)

\* every window of the framed sentence is a boundary marker or is unseen
NoSharedNGram(toks) ==
    LET sentence == apply_modifications(toks)
    IN  \A j \in 1..Len(sentence) : \A i \in j..Len(sentence) :
            LET w == SubSeq(sentence, i - j + 1, i)
            IN  w \in {<<BOS>>, <<EOS>>} \/ WindowCount(corpus, w) = 0

\* sentence k of the corpus scores higher than the sentence just scored
TrainingScoresHigher(k) ==
    LET r == compute_prob(self_models, Interior(corpus[k]), out.N)
    IN  r.status = "ok" /\ HigherScore(r, out.res)

\* C9 as stated: a training sentence scores strictly higher than any
\* sentence sharing no n-gram with the corpus but the boundary markers,
\* whatever the lengths of the two.
C9_AsStated ==
    (/\ pc = "built"
     /\ out.op = "compute_prob"
     /\ out.res.status = "ok"
     /\ NoSharedNGram(out.toks)) =>
        \A k \in 1..Len(corpus) : TrainingScoresHigher(k)

\* C9 amended: it does when the other sentence is at least as long as the
\* training sentence and either the corpus is that one sentence or the
\* score is taken at order 1.
C9_TrainingScoresHigher ==
    (/\ pc = "built"
     /\ out.op = "compute_prob"
     /\ out.res.status = "ok"
     /\ NoSharedNGram(out.toks)) =>
        \A k \in 1..Len(corpus) :
            (/\ Len(out.toks) + 2 >= Len(corpus[k])
             /\ (Len(corpus) = 1 \/ effective_N(self_models, out.N) = 1)) =>
                TrainingScoresHigher(k)

\* an unseen sentence longer than the training sentence, at order 2
C9_Witness ==
    /\ pc = "built"
    /\ N = 2
    /\ corpus = << <<BOS, "a", EOS>> >>
    /\ out.op = "compute_prob"
    /\ out.N = NoN
    /\ out.toks = <<"x", "x">>
    /\ out.res.status = "ok"
    /\ TrainingScoresHigher(1)

\* ---------------------------------------------------------------- C10
\* C10: when the build returns, the first n tries of a model of maximum
\* order N are the tries of the model of maximum order n built from the
\* same corpus, and a score asked at order n of the former makes the same
\* queries, reads no trie of an order above n, and returns what the default
\* score of the latter does.
C10_TruncatedOrder ==
    /\ (pc = "built" /\ out = NoCall) =>
          \A n \in 1..N : SubSeq(self_models, 1, n) = make_models(corpus, n)
    /\ (/\ pc = "built"
        /\ out.op = "compute_prob"
        /\ out.N.given
        /\ out.N.n \in 1..N) =>
          /\ out.res = compute_prob(make_models(corpus, out.N.n),
                                    out.toks, NoN)
          /\ out.res.reads \subseteq 1..out.N.n

\* order 1 asked of a model of order 2 whose bigram trie is not empty
C10_Witness ==
    /\ pc = "built"
    /\ N = 2
    /\ Len(corpus) = 2
    /\ self_models[2] # EmptyDict
    /\ out.op = "compute_prob"
    /\ out.N = GivenN(1)
    /\ Len(out.toks) = 2
    /\ out.res.status = "ok"
    /\ out.res.reads = {1}

\* ----------------------------------------------------------------- C6
SameCall(o1, o2) ==
    /\ o1.op = o2.op
    /\ o1.op = "get_relative_freq" =>
          o1.words = o2.words /\ o1.alpha = o2.alpha
    /\ o1.op = "compute_prob" => o1.toks = o2.toks /\ o1.N = o2.N

\* C6: once the model is built, a call of get_relative_freq or of
\* compute_prob leaves every trie as it was (no entry created, no count
\* changed, the vocabulary size the same), and a call repeated returns what
\* it returned before.
C6_QueriesChangeNothing ==
    [][pc = "built" =>
          /\ self_models' = self_models
          /\ values_len(self_models'[1]) = values_len(self_models[1])
          /\ (out.op # "none" /\ SameCall(out, out')) => out'.res = out.res
      ]_vars

\* a score over tokens never seen in training has been returned
C6_Witness ==
    /\ pc = "built"
    /\ Len(corpus) >= 1
    /\ out.op = "compute_prob"
    /\ out.toks = <<"x", "a">>
    /\ out.res.status = "ok"
    /\ get_by_path(self_models[1], <<"x">>) = 0
    /\ self_models = models

====
